---------------------------- MODULE Spec2Model ----------------------------
(* A model of emelops/STEGO:                                               *)
(*   src/src/plot_pr_curves.py        LitRecalibrator, the evaluation pass *)
(*   src/emelops_scripts/create-dataset.py   the train/val/test split      *)
(*                                                                         *)
(* Tensors are sequences along the batch axis; the entry of one image is   *)
(* the flattened block of its pairwise values.  Real numbers are exact     *)
(* rationals <<n, d>> in lowest terms, with the IEEE values NaN and +-inf  *)
(* that a division by zero produces.                                       *)
EXTENDS Integers, Sequences, FiniteSets, TLC

(***************************************************************************)
(* Bounds of the model                                                     *)
(***************************************************************************)
\* total number of images handed to one validation_epoch_end
MaxImages == 3
\* largest count in one cell of the confusion-matrix histogram
MaxCount == 1
\* n_classes, the constructor's parameter
n_classes == 2
\* number of parallel worker processes of the trainer
NumProcs == 2
\* number of batches the loader deals to one worker
MaxBatches == 2

Procs == 0 .. (NumProcs - 1)

(***************************************************************************)
(* Generic helpers                                                         *)
(***************************************************************************)
RECURSIVE SeqsUpTo(_, _)
\* all sequences over S of length 0..n
SeqsUpTo(S, n) ==
    IF n = 0 THEN {<< >>}
    ELSE LET shorter == SeqsUpTo(S, n - 1)
         IN  shorter \cup {Append(s, x) : s \in {t \in shorter : Len(t) = n - 1}, x \in S}

RECURSIVE SumSeq(_)
SumSeq(s) == IF s = << >> THEN 0 ELSE Head(s) + SumSeq(Tail(s))

Abs(x) == IF x < 0 THEN -x ELSE x

RECURSIVE Gcd(_, _)
Gcd(a, b) == IF b = 0 THEN a ELSE Gcd(b, a % b)

(***************************************************************************)
(* Floating-point values as exact rationals plus NaN and the infinities    *)
(***************************************************************************)
NaN == <<0, 0>>
PosInf == <<1, 0>>
NegInf == <<-1, 0>>

\* the rational n/d in lowest terms with a positive denominator (d # 0)
Rat(n, d) ==
    LET g == Gcd(Abs(n), Abs(d))
        s == IF d < 0 THEN -1 ELSE 1
    IN  <<(s * n) \div g, (s * d) \div g>>

FromInt(v) == <<v, 1>>
IsNaN(x) == x = NaN
IsFinite(x) == x[2] # 0

\* x - y
RSub(x, y) ==
    IF IsNaN(x) \/ IsNaN(y) THEN NaN
    ELSE IF ~IsFinite(x) THEN (IF x = y THEN NaN ELSE x)
    ELSE IF ~IsFinite(y) THEN <<-y[1], 0>>
    ELSE Rat(x[1] * y[2] - y[1] * x[2], x[2] * y[2])

\* x + y
RAdd(x, y) ==
    IF IsNaN(x) \/ IsNaN(y) THEN NaN
    ELSE IF ~IsFinite(x) THEN (IF ~IsFinite(y) /\ x # y THEN NaN ELSE x)
    ELSE IF ~IsFinite(y) THEN y
    ELSE Rat(x[1] * y[2] + y[1] * x[2], x[2] * y[2])

Sign(n) == IF n < 0 THEN -1 ELSE IF n = 0 THEN 0 ELSE 1

\* x / y as IEEE division: v/0 is +-inf, 0/0 and inf/inf are NaN
RDiv(x, y) ==
    IF IsNaN(x) \/ IsNaN(y) THEN NaN
    ELSE IF ~IsFinite(x) THEN (IF ~IsFinite(y) THEN NaN
                               ELSE <<x[1] * (IF y[1] < 0 THEN -1 ELSE 1), 0>>)
    ELSE IF ~IsFinite(y) THEN <<0, 1>>
    ELSE IF y[1] = 0 THEN (IF x[1] = 0 THEN NaN ELSE <<Sign(x[1]), 0>>)
    ELSE Rat(x[1] * y[2], x[2] * y[1])

\* x < y on values that are not NaN
RLess(x, y) ==
    IF ~IsFinite(x) THEN x = NegInf /\ y # NegInf
    ELSE IF ~IsFinite(y) THEN y = PosInf
    ELSE x[1] * y[2] < y[1] * x[2]

\* Tensor.min() / Tensor.max() of a non-empty flat tensor: NaN if any element is
TMin(t) ==
    IF \E i \in 1 .. Len(t) : IsNaN(t[i]) THEN NaN
    ELSE CHOOSE m \in {t[i] : i \in 1 .. Len(t)} :
             \A i \in 1 .. Len(t) : ~RLess(t[i], m)

TMax(t) ==
    IF \E i \in 1 .. Len(t) : IsNaN(t[i]) THEN NaN
    ELSE CHOOSE m \in {t[i] : i \in 1 .. Len(t)} :
             \A i \in 1 .. Len(t) : ~RLess(m, t[i])

\* Tensor.to(torch.int64): truncation toward zero of a finite value
ToInt64(x) == IF x[1] >= 0 THEN x[1] \div x[2] ELSE -((-x[1]) \div x[2])

(***************************************************************************)
(* Tensor shape operations                                                 *)
(***************************************************************************)
RECURSIVE Flatten(_)
\* Tensor.reshape(-1): all elements, image after image
Flatten(t) == IF t = << >> THEN << >> ELSE Head(t) \o Flatten(Tail(t))

RECURSIVE Cat(_)
\* torch.cat(ts, dim=0)
Cat(ts) == IF ts = << >> THEN << >> ELSE Head(ts) \o Cat(Tail(ts))


(***************************************************************************)
(* State                                                                   *)
(***************************************************************************)
VARIABLES
    attrs,        \* names of the attributes assigned on the LitRecalibrator
    histogram,    \* self.cm_metrics.histogram
    loader,       \* per worker: the batches the val loader deals to it
    pc,           \* per worker: "loop", "done" or "raised"
    batch_idx,    \* per worker: index of the next batch
    calls,        \* per worker: number of validation_step calls made
    coords,       \* per worker: <<coords1, coords2>> drawn by each step
    outputs,      \* per worker: the step outputs the trainer collected
    exc,          \* per worker: the exception that ended its pass
    finalized,    \* per worker: number of validation_epoch_end calls made
    all_outputs,  \* per worker: all_outputs as built by lines 213-216
    heatmap,      \* per worker: the matrices handed to sns.heatmap
    pr_calls,     \* per worker: the calls of plot_pr, in order
    ld_in,        \* get_net_fd alone: <<its arguments>>
    ld_out,       \* get_net_fd alone: <<its result>> once it returned
    dataset_files,\* create-dataset.py: the shuffled file list
    split_pc,     \* create-dataset.py: the loop it is in, "train", "val",
                  \* "test", or "end"
    split_i,      \* create-dataset.py: files the current loop has linked
    links         \* create-dataset.py: directory -> files hard-linked into it

varsPass == <<attrs, histogram, loader, pc, batch_idx, calls, coords, outputs,
              exc, finalized, all_outputs, heatmap, pr_calls>>
varsLd == <<ld_in, ld_out>>
varsSplit == <<dataset_files, split_pc, split_i, links>>
vars == <<attrs, histogram, loader, pc, batch_idx, calls, coords, outputs,
          exc, finalized, all_outputs, heatmap, pr_calls, ld_in, ld_out,
          dataset_files, split_pc, split_i, links>>

(***************************************************************************)
(* prep_fd and validation_epoch_end                                        *)
(***************************************************************************)
\* the keys of a step's output, in the order of the dict at lines 202-208
Keys == <<"dino_fd", "stego_fd", "moco_fd", "crf_fd", "ld">>
KeySet == {Keys[i] : i \in 1 .. Len(Keys)}

\* t -= m and t /= m on a flat tensor
SubAll(t, m) == [i \in 1 .. Len(t) |-> RSub(t[i], m)]
DivAll(t, m) == [i \in 1 .. Len(t) |-> RDiv(t[i], m)]
\* t -= t.min() and t /= t.max(), on the tensor x that t evaluates to
SubMin(t) == CHOOSE r \in {SubAll(x, m) : x \in {t}, m \in {TMin(t)}} : TRUE
DivMax(t) == CHOOSE r \in {DivAll(x, m) : x \in {t}, m \in {TMax(t)}} : TRUE

\* prep_fd with the division guarded against a zero maximum
prep_fd_guarded(fd) ==
    IF TMax(SubMin(Flatten(fd))) = <<0, 1>>
    THEN SubMin(Flatten(fd))
    ELSE DivMax(SubMin(Flatten(fd)))

\* prep_fd dividing by the maximum taken before the minimum was subtracted
prep_fd_stale_max(fd) == DivAll(SubMin(Flatten(fd)), TMax(Flatten(fd)))

\* prep_fd: fd -= fd.min(); fd /= fd.max(); return fd.reshape(-1)
prep_fd(fd) == DivMax(SubMin(Flatten(fd)))

\* all_outputs keeping only the first step's tensors
AllOutputs_first_only(outs) ==
    [k \in KeySet |-> outs[1][k]]

\* lines 213-216: all_outputs[k] = torch.cat([o[k] for o in outputs], dim=0)
AllOutputs(outs) ==
    [k \in DOMAIN outs[1] |-> Cat([i \in 1 .. Len(outs) |-> outs[i][k]])]

\* targets.to(torch.int64).cpu().reshape(-1)
Targets(t) == [i \in 1 .. Len(t) |-> ToInt64(t[i])]

\* plot_pr up to the call of precision_recall_curve(targets, preds):
\* preds = preds.cpu().reshape(-1); preds -= preds.min(); preds /= preds.max()
plot_pr(preds_in, targets_in, name) ==
    [name |-> name, preds_in |-> preds_in,
     preds |-> DivMax(SubMin(Flatten(<<preds_in>>))),
     targets |-> Targets(Flatten(targets_in))]

RECURSIVE ColSum(_, _, _)
\* hist.sum(dim=0)[j]: the sum of column j over the rows 1..i
ColSum(h, j, i) == IF i = 0 THEN 0 ELSE h[i][j] + ColSum(h, j, i - 1)

\* plot_cm normalising by the sums along dim=1
plot_cm_dim1(h) ==
    LET n == Len(h)
        hist == [i \in 1 .. n |-> [j \in 1 .. n |->
                   RDiv(FromInt(h[i][j]),
                        FromInt(IF SumSeq(h[i]) < 1 THEN 1 ELSE SumSeq(h[i])))]]
    IN  [j \in 1 .. n |-> [i \in 1 .. n |-> hist[i][j]]]

\* plot_cm: hist /= clamp_min(hist.sum(dim=0, keepdim=True), 1); the matrix
\* handed to sns.heatmap is hist.t()
plot_cm(h) ==
    LET n == Len(h)
        clamped(j) == IF ColSum(h, j, n) < 1 THEN 1 ELSE ColSum(h, j, n)
        hist == [i \in 1 .. n |-> [j \in 1 .. n |->
                   RDiv(FromInt(h[i][j]), FromInt(clamped(j)))]]
    IN  [j \in 1 .. n |-> [i \in 1 .. n |-> hist[i][j]]]

\* validation_epoch_end(outputs) on a worker whose trainer.is_global_zero is given
validation_epoch_end(outs, is_global_zero, h) ==
    IF outs = << >>
    THEN [raised |-> "IndexError", all_outputs |-> << >>,
          heatmap |-> << >>, pr_calls |-> << >>]
    ELSE LET all == AllOutputs(outs)
         IN  IF is_global_zero
             THEN [raised |-> "none", all_outputs |-> all,
                   heatmap |-> <<plot_cm(h)>>,
                   pr_calls |->
                     <<plot_pr(prep_fd(all["stego_fd"]), all["ld"], "STEGO (Ours)"),
                       plot_pr(prep_fd(all["dino_fd"]), all["ld"], "DINO"),
                       plot_pr(prep_fd(all["moco_fd"]), all["ld"], "MoCoV2"),
                       plot_pr(prep_fd(all["crf_fd"]), all["ld"], "CRF")>>]
             ELSE [raised |-> "none", all_outputs |-> all,
                   heatmap |-> << >>, pr_calls |-> << >>]

(***************************************************************************)
(* get_net_fd: sampling and correlation of the label maps                  *)
(***************************************************************************)
\* width in pixels of a label map (maps are one row of pixels)
LabelWidth == 2
\* coordinates are multiples of 1/Scale of a pixel
Scale == 3
\* cfg.train.feature_samples: positions per coordinate set
feature_samples == 1

\* pixel labels: -1 is the unlabeled value, 0 .. n_classes-1 the classes
Labels == -1 .. (n_classes - 1)
LabelMaps == [1 .. LabelWidth -> Labels]
\* normalised coordinates in [-1, 1] as positions 0 .. Scale * (LabelWidth - 1)
AllPositions == 0 .. (Scale * (LabelWidth - 1))
AllCoordSets == [1 .. feature_samples -> AllPositions]
\* torch.rand(...) * 2 - 1 lies in [-1, 1): a position left of the last pixel
Positions == 0 .. (Scale * (LabelWidth - 1) - 1)
CoordSets == [1 .. feature_samples -> Positions]
Channels == 0 .. n_classes

\* F.one_hot(label + 1, n_classes + 1) of one pixel, as a vector over channels
one_hot(label) == [c \in Channels |-> IF c = label + 1 THEN 1 ELSE 0]

\* modules.sample at one position: bilinear interpolation between the two
\* neighbouring pixels, the right neighbour clamped to the border.  The
\* result is the vector of numerators over the denominator Scale.
sample(map, pos) ==
    [c \in Channels |->
        map[(pos \div Scale) + 1][c] * (Scale - (pos % Scale))
        + map[IF (pos \div Scale) + 2 > Len(map) THEN Len(map)
              ELSE (pos \div Scale) + 2][c] * (pos % Scale)]

RECURSIVE Dot(_, _, _)
\* the sum over the channels 0..c of a[c] * b[c]
Dot(a, b, c) == IF c < 0 THEN 0 ELSE a[c] * b[c] + Dot(a, b, c - 1)

\* the correlation of the sample vectors x and y, flattened row by row
Corr(x, y) ==
    [q \in 1 .. (Len(x) * Len(y)) |->
        Rat(Dot(x[((q - 1) \div Len(y)) + 1], y[((q - 1) % Len(y)) + 1], n_classes),
            Scale * Scale)]

\* modules.tensor_correlation for one image: einsum("nchw,ncij->nhwij");
\* the samples are numerators over Scale
tensor_correlation(a, b) == CHOOSE t \in {Corr(x, y) : x \in {a}, y \in {b}} : TRUE

\* argmax over the channels: the first channel holding the maximum
ArgMax(v) ==
    CHOOSE c \in {d \in Channels : \E w \in {v} :
                     /\ \A e \in Channels : w[e] <= w[d]
                     /\ \A e \in Channels : e < d => w[e] < w[d]} : TRUE

\* the one-hot map of one image, sampled at each position of cs
SampleAll(map, cs) == [i \in 1 .. Len(cs) |-> sample(map, cs[i])]

\* the label samples of one image at one coordinate set
label_samples(label, cs) ==
    CHOOSE s \in {SampleAll(m, cs) :
                    m \in {[x \in 1 .. Len(label) |-> one_hot(label[x])]}} : TRUE

\* get_net_fd sampling both label maps at coords1
get_net_fd_coords1_twice(feats1, feats2, label1, label2, coords1, coords2) ==
    [ld |-> [n \in 1 .. Len(label1) |->
               tensor_correlation(label_samples(label1[n], coords1[n]),
                                  label_samples(label2[n], coords1[n]))],
     fd |-> [n \in 1 .. Len(label1) |->
               [q \in 1 .. (Len(coords1[n]) * Len(coords2[n])) |->
                  [f1 |-> feats1, f2 |-> feats2,
                   p1 |-> coords1[n][((q - 1) \div Len(coords2[n])) + 1],
                   p2 |-> coords2[n][((q - 1) % Len(coords2[n])) + 1]]]],
     l1 |-> [n \in 1 .. Len(label1) |->
               [i \in 1 .. Len(coords1[n]) |->
                  ArgMax(label_samples(label1[n], coords1[n])[i])]],
     l2 |-> [n \in 1 .. Len(label2) |->
               [i \in 1 .. Len(coords1[n]) |->
                  ArgMax(label_samples(label2[n], coords1[n])[i])]]]

\* get_net_fd on a batch: label1, label2, coords1, coords2 are sequences over
\* the images.  fd, the correlation of the normalised feature samples, is kept
\* as the term naming the features and the two positions of each pair.
get_net_fd(feats1, feats2, label1, label2, coords1, coords2) ==
    [ld |-> [n \in 1 .. Len(label1) |->
               tensor_correlation(label_samples(label1[n], coords1[n]),
                                  label_samples(label2[n], coords2[n]))],
     fd |-> [n \in 1 .. Len(label1) |->
               [q \in 1 .. (Len(coords1[n]) * Len(coords2[n])) |->
                  [f1 |-> feats1, f2 |-> feats2,
                   p1 |-> coords1[n][((q - 1) \div Len(coords2[n])) + 1],
                   p2 |-> coords2[n][((q - 1) % Len(coords2[n])) + 1]]]],
     l1 |-> [n \in 1 .. Len(label1) |->
               [i \in 1 .. Len(coords1[n]) |->
                  ArgMax(label_samples(label1[n], coords1[n])[i])]],
     l2 |-> [n \in 1 .. Len(label2) |->
               [i \in 1 .. Len(coords2[n]) |->
                  ArgMax(label_samples(label2[n], coords2[n])[i])]]]

\* get_crf_fd: self.crf(coord_diff, img_diff), kept as the term naming the
\* image and the two positions of each pair
get_crf_fd(img, coords1, coords2) ==
    [n \in 1 .. Len(img) |->
        [q \in 1 .. (Len(coords1[n]) * Len(coords2[n])) |->
            [f1 |-> "crf", f2 |-> img[n],
             p1 |-> coords1[n][((q - 1) \div Len(coords2[n])) + 1],
             p2 |-> coords2[n][((q - 1) % Len(coords2[n])) + 1]]]]

(***************************************************************************)
(* LitRecalibrator.__init__ and validation_step                            *)
(***************************************************************************)
\* the attributes __init__ assigns (self.dino and self.crf are commented out)
InitAttrs ==
    {"cfg", "n_classes", "moco", "cm_metrics", "automatic_optimization", "label_cmap"}

\* UnsupervisedMetrics starts with a zero histogram; nothing here updates it
ZeroHistogram == [i \in 1 .. n_classes |-> [j \in 1 .. n_classes |-> 0]]

\* validation_step(batch, batch_idx) with the two coordinate draws given
validation_step(batch, coords1, coords2, a) ==
    IF "dino" \notin a \/ "moco" \notin a \/ "crf" \notin a
    THEN [raised |-> "AttributeError", out |-> << >>]
    ELSE LET crf_fd == get_crf_fd(batch.img, coords1, coords2)
             r1 == get_net_fd("dino_code", "dino_code", batch.label, batch.label,
                              coords1, coords2)
             r2 == get_net_fd("dino_feats", "dino_feats", batch.label, batch.label,
                              coords1, coords2)
             r3 == get_net_fd("moco_feats", "moco_feats", batch.label, batch.label,
                              coords1, coords2)
         IN  [raised |-> "none",
              out |-> [dino_fd |-> r2.fd, stego_fd |-> r1.fd, moco_fd |-> r3.fd,
                       crf_fd |-> crf_fd, ld |-> r3.ld]]

(***************************************************************************)
(* The evaluation pass of one worker, as trainer.fit drives it             *)
(***************************************************************************)
\* one call of validation_step on the worker's next batch
ValidationStep(p, coords1, coords2) ==
    \E r \in {validation_step(loader[p][batch_idx[p] + 1], coords1, coords2, attrs)} :
        /\ calls' = [calls EXCEPT ![p] = @ + 1]
        /\ IF r.raised # "none"
           THEN /\ pc' = [pc EXCEPT ![p] = "raised"]
                /\ exc' = [exc EXCEPT ![p] = r.raised]
                /\ UNCHANGED <<batch_idx, coords, outputs>>
           ELSE /\ outputs' = [outputs EXCEPT ![p] = Append(@, r.out)]
                /\ coords' = [coords EXCEPT ![p] = Append(@, <<coords1, coords2>>)]
                /\ batch_idx' = [batch_idx EXCEPT ![p] = @ + 1]
                /\ UNCHANGED <<pc, exc>>
        /\ UNCHANGED <<finalized, all_outputs, heatmap, pr_calls>>

\* the call of validation_epoch_end(outputs); trainer.is_global_zero is rank 0
ValidationEpochEnd(p) ==
    \E r \in {validation_epoch_end(outputs[p], p = 0, histogram)} :
        /\ finalized' = [finalized EXCEPT ![p] = @ + 1]
        /\ all_outputs' = [all_outputs EXCEPT ![p] = r.all_outputs]
        /\ heatmap' = [heatmap EXCEPT ![p] = r.heatmap]
        /\ pr_calls' = [pr_calls EXCEPT ![p] = r.pr_calls]
        /\ IF r.raised # "none"
           THEN /\ pc' = [pc EXCEPT ![p] = "raised"]
                /\ exc' = [exc EXCEPT ![p] = r.raised]
           ELSE /\ pc' = [pc EXCEPT ![p] = "done"]
                /\ UNCHANGED exc
        /\ UNCHANGED <<batch_idx, calls, coords, outputs>>

\* trainer.fit on worker p: validation_step on every batch, each return value
\* collected, then validation_epoch_end on the collection; an exception ends
\* the worker's pass
RunWorker(p) ==
    /\ pc[p] = "loop"
    /\ IF batch_idx[p] < Len(loader[p])
       THEN \E coords1, coords2 \in
                   [1 .. Len(loader[p][batch_idx[p] + 1].img) -> CoordSets] :
               ValidationStep(p, coords1, coords2)
       ELSE ValidationEpochEnd(p)
    /\ UNCHANGED <<attrs, histogram, loader, varsLd, varsSplit>>

\* a batch of the val loader: one image and its label map
Batches == {[img |-> <<"img">>, label |-> <<m>>] : m \in LabelMaps}
\* the loaders of 1 .. n batches
Loaders(n) == SeqsUpTo(Batches, n) \ {<< >>}

\* get_net_fd and the split script at rest
LdIdle == ld_in = << >> /\ ld_out = << >>
SplitIdle ==
    /\ dataset_files = << >>
    /\ split_pc = "idle"
    /\ split_i = 0
    /\ links = [train |-> {}, val |-> {}, test |-> {}]

\* the state after my_app has built the model and trainer.fit starts the pass
Init ==
    /\ attrs = InitAttrs
    /\ histogram = ZeroHistogram
    /\ loader \in [Procs -> Loaders(MaxBatches)]
    /\ pc = [p \in Procs |-> "loop"]
    /\ batch_idx = [p \in Procs |-> 0]
    /\ calls = [p \in Procs |-> 0]
    /\ coords = [p \in Procs |-> << >>]
    /\ outputs = [p \in Procs |-> << >>]
    /\ exc = [p \in Procs |-> "none"]
    /\ finalized = [p \in Procs |-> 0]
    /\ all_outputs = [p \in Procs |-> << >>]
    /\ heatmap = [p \in Procs |-> << >>]
    /\ pr_calls = [p \in Procs |-> << >>]
    /\ LdIdle
    /\ SplitIdle

Next == \E p \in Procs : RunWorker(p)

Spec == Init /\ [][Next]_vars

(***************************************************************************)
(* validation_epoch_end applied to collected outputs                       *)
(***************************************************************************)
\* values of a correlation tensor and of ld handed to the finalizer
Vals == {0, 1, 2}
LdVals == {<<0, 1>>, <<1, 1>>}

\* the output of one step over Len(row) images: the four signals hold
\* different values of one drawn row, ld holds the drawn ldrow
StepOutput(row, ldrow) ==
    [stego_fd |-> [i \in 1 .. Len(row) |-> <<FromInt(row[i])>>],
     dino_fd |-> [i \in 1 .. Len(row) |-> <<FromInt(row[i] * row[i])>>],
     moco_fd |-> [i \in 1 .. Len(row) |-> <<FromInt(2 - row[i])>>],
     crf_fd |-> [i \in 1 .. Len(row) |-> <<FromInt((row[i] - 1) * (row[i] - 1))>>],
     ld |-> [i \in 1 .. Len(row) |-> <<ldrow[i]>>]]

StepOutputs(b) ==
    {StepOutput(row, ldrow) : row \in [1 .. b -> Vals], ldrow \in [1 .. b -> LdVals]}

RECURSIVE PassOutputs(_)
\* the collections of step outputs over at most n images in all
PassOutputs(n) ==
    {<< >>} \cup
    UNION {{<<o>> \o rest : o \in StepOutputs(b), rest \in PassOutputs(n - b)} :
             b \in 1 .. n}

Histograms == [1 .. n_classes -> [1 .. n_classes -> 0 .. MaxCount]]

\* the smallest collection: one step over one image
MinimalOutputs == <<StepOutput(<<0>>, <<(<<1, 1>>)>>)>>

\* the inputs <<worker, outputs, histogram>> of validation_epoch_end: any
\* collection on any worker with the histogram as constructed, and any
\* histogram on rank 0, the one worker that reads it, with the smallest
\* collection
EpochEndInputs(n) ==
    {<<w, o, ZeroHistogram>> : w \in Procs, o \in PassOutputs(n) \ {<< >>}}
    \cup {<<0, MinimalOutputs, h>> : h \in Histograms}

\* worker in[1] has run its steps and holds the collected outputs in[2];
\* the histogram of cm_metrics is in[3]
InitEpochEnd ==
    \E in \in EpochEndInputs(MaxImages) :
      LET w == in[1]
          o == in[2] IN
        /\ attrs = InitAttrs
        /\ histogram = in[3]
        /\ loader = [p \in Procs |-> << >>]
        /\ pc = [p \in Procs |-> IF p = w THEN "loop" ELSE "idle"]
        /\ batch_idx = [p \in Procs |-> 0]
        /\ calls = [p \in Procs |-> IF p = w THEN Len(o) ELSE 0]
        /\ coords = [p \in Procs |-> << >>]
        /\ outputs = [p \in Procs |-> IF p = w THEN o ELSE << >>]
        /\ exc = [p \in Procs |-> "none"]
        /\ finalized = [p \in Procs |-> 0]
        /\ all_outputs = [p \in Procs |-> << >>]
        /\ heatmap = [p \in Procs |-> << >>]
        /\ pr_calls = [p \in Procs |-> << >>]
        /\ LdIdle
        /\ SplitIdle

SpecEpochEnd == InitEpochEnd /\ [][Next]_vars

(***************************************************************************)
(* get_net_fd applied to a label map and two coordinate sets               *)
(***************************************************************************)
\* no evaluation pass is running
PassIdle ==
    /\ attrs = InitAttrs
    /\ histogram = ZeroHistogram
    /\ loader = [p \in Procs |-> << >>]
    /\ pc = [p \in Procs |-> "idle"]
    /\ batch_idx = [p \in Procs |-> 0]
    /\ calls = [p \in Procs |-> 0]
    /\ coords = [p \in Procs |-> << >>]
    /\ outputs = [p \in Procs |-> << >>]
    /\ exc = [p \in Procs |-> "none"]
    /\ finalized = [p \in Procs |-> 0]
    /\ all_outputs = [p \in Procs |-> << >>]
    /\ heatmap = [p \in Procs |-> << >>]
    /\ pr_calls = [p \in Procs |-> << >>]

InitLd ==
    /\ PassIdle
    /\ SplitIdle
    /\ ld_in \in {<<a>> : a \in [label : LabelMaps, coords1 : AllCoordSets,
                                  coords2 : AllCoordSets]}
    /\ ld_out = << >>

\* get_net_fd(feats, feats, label, label, coords1, coords2) on a batch of one
\* image, as validation_step calls it
GetNetFd ==
    /\ ld_in # << >>
    /\ ld_out = << >>
    /\ ld_out' = <<get_net_fd("feats", "feats", <<ld_in[1].label>>, <<ld_in[1].label>>,
                              <<ld_in[1].coords1>>, <<ld_in[1].coords2>>)>>
    /\ UNCHANGED <<ld_in, varsPass, varsSplit>>

NextLd == GetNetFd

SpecLd == InitLd /\ [][NextLd]_vars

(***************************************************************************)
(* create-dataset.py                                                       *)
(***************************************************************************)
\* dataset_size (30000 in the script), scaled down
dataset_size == 4
train_percent == 50
val_percent == 25
test_percent == 25
\* largest number of files the glob finds
MaxFiles == 6

\* int(percent / 100 * dataset_size + start): the floor of a non-negative value
IntOf(percent, start) == ((percent * dataset_size) \div 100) + start

train_start == 0
train_end == IntOf(train_percent, 0)
\* val_start one short of train_end
val_start_overlapping == train_end - 1
val_start == train_end
val_end == IntOf(val_percent, val_start)
test_start == val_end
test_end == IntOf(test_percent, test_start)

\* the Python slice s[a:b], both ends clipped to the list
Slice(s, a, b) ==
    LET lo == IF a > Len(s) THEN Len(s) ELSE a
        hi == IF b > Len(s) THEN Len(s) ELSE b
    IN  IF hi <= lo THEN << >> ELSE SubSeq(s, lo + 1, hi)

train_files == Slice(dataset_files, train_start, train_end)
val_files == Slice(dataset_files, val_start, val_end)
test_files == Slice(dataset_files, test_start, test_end)

\* sha256(stem).hexdigest(), kept as a function that is not injective
Sha256(f) == f % 2
\* the link's name f'{hash}-{name}' and the file it links
LinkOf(f) == [name |-> <<Sha256(f), f>>, file |-> f]

RECURSIVE Shuffles(_)
\* sorted(glob(...)) holds every file of S once; rng.shuffle permutes it
Shuffles(S) ==
    IF S = {} THEN {<< >>}
    ELSE UNION {{<<f>> \o rest : rest \in Shuffles(S \ {f})} : f \in S}

InitSplit ==
    /\ PassIdle
    /\ LdIdle
    /\ \E n \in 0 .. MaxFiles : dataset_files \in Shuffles(1 .. n)
    /\ split_pc = "train"
    /\ split_i = 0
    /\ links = [train |-> {}, val |-> {}, test |-> {}]

\* one round of a link loop over files into directory dir; os.link raises
\* FileExistsError when the name is taken
LinkLoop(dir, files, next_pc) ==
    /\ split_pc = dir
    /\ IF split_i < Len(files)
       THEN IF \E l \in links[dir] : l.name = LinkOf(files[split_i + 1]).name
            THEN /\ split_pc' = "raised"
                 /\ UNCHANGED <<split_i, links>>
            ELSE /\ links' = [links EXCEPT ![dir] = @ \cup {LinkOf(files[split_i + 1])}]
                 /\ split_i' = split_i + 1
                 /\ UNCHANGED split_pc
       ELSE /\ split_pc' = next_pc
            /\ split_i' = 0
            /\ UNCHANGED links
    /\ UNCHANGED <<dataset_files, varsPass, varsLd>>

LinkTrain == LinkLoop("train", train_files, "val")
LinkVal == LinkLoop("val", val_files, "test")
LinkTest == LinkLoop("test", test_files, "end")

NextSplit == LinkTrain \/ LinkVal \/ LinkTest

SpecSplit == InitSplit /\ [][NextSplit]_vars

(***************************************************************************)
(* Claims about the evaluation pass (under Spec)                           *)
(***************************************************************************)
\* the worker's pass is over: it finalized or an exception ended it
PassEnded(p) == pc[p] \in {"done", "raised"}

\* C1: once every worker's pass is over, the heatmap and the precision-recall
\* plot were rendered exactly once, by the lead worker (rank 0) alone, and
\* every other worker ended finalization without rendering and without raising
C1_RenderedExactlyOnce ==
    (\A p \in Procs : PassEnded(p)) =>
        /\ Len(heatmap[0]) = 1
        /\ Len(pr_calls[0]) = 4
        /\ \A p \in Procs \ {0} :
              /\ heatmap[p] = << >>
              /\ pr_calls[p] = << >>
              /\ finalized[p] = 1
              /\ exc[p] = "none"

\* C2: step outputs are appended only before finalization, nothing is
\* finalized twice, the accumulated outputs are read (by validation_epoch_end)
\* only at that transition, and a pass that is over was finalized exactly once
C2_FinalizedOncePerPass ==
    [][\A p \in Procs :
          /\ finalized[p] >= 1 => outputs'[p] = outputs[p]
          /\ all_outputs'[p] # all_outputs[p] => finalized'[p] = finalized[p] + 1
          /\ finalized'[p] <= 1
          /\ PassEnded(p)' => finalized'[p] = 1]_vars

\* C3: every call of validation_step returns a mapping holding stego_fd,
\* dino_fd, moco_fd, crf_fd and ld, and none fails for lack of an encoder or
\* of the potential model
C3_StepReturnsAllKeys ==
    \A p \in Procs :
        /\ exc[p] # "AttributeError"
        /\ Len(outputs[p]) = calls[p]
        /\ \A t \in 1 .. Len(outputs[p]) : DOMAIN outputs[p][t] = KeySet

\* the positions of the pairs of one image's block, pair by pair
PairsOf(c1, c2) ==
    [q \in 1 .. (Len(c1) * Len(c2)) |->
        <<c1[((q - 1) \div Len(c2)) + 1], c2[((q - 1) % Len(c2)) + 1]>>]

\* C5: every step that was run drew one pair of coordinate sets, and its
\* output holds the four signals and ld, each computed at exactly those
\* coordinates
C5_SameCoordsPerStep ==
    \A p \in Procs : \A t \in 1 .. calls[p] :
        /\ t <= Len(outputs[p])
        /\ t <= Len(coords[p])
        /\ \A n \in 1 .. Len(loader[p][t].img) :
              LET c1 == coords[p][t][1][n]
                  c2 == coords[p][t][2][n]
                  lab == loader[p][t].label[n]
              IN  /\ \A k \in KeySet \ {"ld"} :
                        \A q \in 1 .. Len(outputs[p][t][k][n]) :
                            <<outputs[p][t][k][n][q].p1, outputs[p][t][k][n][q].p2>>
                                = PairsOf(c1, c2)[q]
                  /\ outputs[p][t]["ld"][n] =
                        tensor_correlation(label_samples(lab, c1), label_samples(lab, c2))

(***************************************************************************)
(* Claims about validation_epoch_end (under SpecEpochEnd)                  *)
(***************************************************************************)
RECURSIVE Offset(_, _, _)
\* the number of images of key k in the steps before step i
Offset(outs, k, i) ==
    IF i <= 1 THEN 0 ELSE Len(outs[i - 1][k]) + Offset(outs, k, i - 1)

\* worker p ran validation_epoch_end and it returned
Finalized(p) == finalized[p] = 1 /\ exc[p] = "none"

\* C4: for every key, the accumulated tensor holds, at the place of image j of
\* step i, that image's entry of the step's tensor, steps in order, and its
\* length is the sum of the steps' batch sizes, the same for every key
C4_Concatenation ==
    \A p \in Procs : Finalized(p) =>
        \A k \in KeySet :
            /\ DOMAIN all_outputs[p] = KeySet
            /\ Len(all_outputs[p][k]) = Offset(outputs[p], "ld", Len(outputs[p]) + 1)
            /\ \A i \in 1 .. Len(outputs[p]) : \A j \in 1 .. Len(outputs[p][i][k]) :
                  all_outputs[p][k][Offset(outputs[p], k, i) + j] = outputs[p][i][k][j]

C4_Witness ==
    \E p \in Procs :
        /\ Finalized(p)
        /\ Len(outputs[p]) >= 2
        /\ Len(outputs[p][1]["ld"]) # Len(outputs[p][2]["ld"])
        /\ outputs[p][1]["stego_fd"][1] # outputs[p][2]["stego_fd"][1]

\* the signal of the i-th plot_pr call (lines 272-275)
SignalOf == <<"stego_fd", "dino_fd", "moco_fd", "crf_fd">>

\* all elements of the tensor are equal
ZeroRange(t) == \A i, j \in 1 .. Len(t) : t[i] = t[j]

\* C6: on the lead worker all four signals are plotted, and for a signal of
\* zero range every element prep_fd returns is NaN and every element handed
\* to precision_recall_curve is NaN: none is masked, skipped or rejected
C6_NonFinitePassedOn ==
    (finalized[0] = 1) =>
        /\ exc[0] = "none"
        /\ Len(pr_calls[0]) = 4
        /\ \A c \in 1 .. 4 :
              ZeroRange(Flatten(all_outputs[0][SignalOf[c]])) =>
                  /\ Len(pr_calls[0][c].preds) = Len(Flatten(all_outputs[0][SignalOf[c]]))
                  /\ \A i \in 1 .. Len(pr_calls[0][c].preds) :
                        /\ IsNaN(pr_calls[0][c].preds_in[i])
                        /\ IsNaN(pr_calls[0][c].preds[i])

C6_Witness ==
    /\ finalized[0] = 1
    /\ Len(all_outputs[0]["crf_fd"]) >= 2
    /\ ZeroRange(Flatten(all_outputs[0]["crf_fd"]))
    /\ ~ZeroRange(Flatten(all_outputs[0]["stego_fd"]))
    /\ IsNaN(pr_calls[0][4].preds[1])
    /\ ~IsNaN(pr_calls[0][1].preds[1])

\* C7: the normalisation plot_pr applies to what prep_fd returned leaves every
\* element unchanged, and prep_fd applied again returns the same tensor
C7_Idempotent ==
    (finalized[0] = 1) =>
        \A c \in 1 .. Len(pr_calls[0]) :
            /\ pr_calls[0][c].preds = pr_calls[0][c].preds_in
            /\ prep_fd(<<pr_calls[0][c].preds_in>>) = pr_calls[0][c].preds_in

C7_Witness ==
    /\ finalized[0] = 1
    /\ \E c \in 1 .. Len(pr_calls[0]) : \E i \in 1 .. Len(pr_calls[0][c].preds) :
          /\ pr_calls[0][c].preds_in[i] = <<1, 4>>
          /\ pr_calls[0][c].preds[i] = <<1, 4>>

RECURSIVE RSum(_)
RSum(t) == IF t = << >> THEN <<0, 1>> ELSE RAdd(Head(t), RSum(Tail(t)))

\* column j of the histogram holds only zeros
ZeroColumn(h, j) == \A i \in 1 .. Len(h) : h[i][j] = 0

\* C8: in the matrix handed to the heatmap (the transpose of hist), a column
\* of the histogram that sums to zero is all zeros, and every other column
\* sums to 1
C8_ColumnNormalised ==
    (finalized[0] = 1) =>
        /\ Len(heatmap[0]) = 1
        /\ \A j \in 1 .. Len(histogram) :
              IF ZeroColumn(histogram, j)
              THEN \A i \in 1 .. Len(histogram) : heatmap[0][1][j][i] = <<0, 1>>
              ELSE RSum(heatmap[0][1][j]) = <<1, 1>>

C8_Witness ==
    /\ finalized[0] = 1
    /\ \E j, k \in 1 .. Len(histogram) :
          /\ ZeroColumn(histogram, j)
          /\ \A i \in 1 .. Len(histogram) : histogram[i][k] = 1
          /\ heatmap[0][1][j][1] = <<0, 1>>
          /\ heatmap[0][1][k][1] = <<1, 2>>

(***************************************************************************)
(* Claims about get_net_fd (under SpecLd)                                  *)
(***************************************************************************)
\* the pixels a position interpolates between: the pixel at or left of it
\* and, off the pixel grid, the pixel right of it
PixelsAt(pos) ==
    {(pos \div Scale) + 1} \cup
    (IF pos % Scale = 0 THEN {} ELSE {(pos \div Scale) + 2})

\* the labels of the pixels a position interpolates between
LabelsAt(pos) == {ld_in[1].label[x] : x \in PixelsAt(pos)}

\* ld of the pair (i, j) of sampled positions
LdPair(i, j) == ld_out[1].ld[1][(i - 1) * feature_samples + j]

\* C9 as stated: ld is 1 for every pair of sampled positions that carry the
\* same label (the labels get_net_fd returns for them), lies in [0,1] for
\* every pair, and is 0 where the two label vectors are one-hot of different
\* classes
C9_OneWhereSameLabel ==
    (ld_out # << >>) =>
        \A i, j \in 1 .. feature_samples :
            /\ ld_out[1].l1[1][i] = ld_out[1].l2[1][j] => LdPair(i, j) = <<1, 1>>
            /\ ~RLess(LdPair(i, j), <<0, 1>>) /\ ~RLess(<<1, 1>>, LdPair(i, j))
            /\ (/\ Cardinality(LabelsAt(ld_in[1].coords1[i])) = 1
                /\ Cardinality(LabelsAt(ld_in[1].coords2[j])) = 1
                /\ LabelsAt(ld_in[1].coords1[i]) # LabelsAt(ld_in[1].coords2[j]))
               => LdPair(i, j) = <<0, 1>>

\* C9 amended: ld is 1 for every pair of positions whose interpolated pixels
\* all carry one and the same label, lies in [0,1] for every pair, and is 0
\* where the pixels of the one position share no label with those of the other
C9_OneWherePureSameLabel ==
    (ld_out # << >>) =>
        \A i, j \in 1 .. feature_samples :
            /\ (/\ Cardinality(LabelsAt(ld_in[1].coords1[i])) = 1
                /\ LabelsAt(ld_in[1].coords1[i]) = LabelsAt(ld_in[1].coords2[j]))
               => LdPair(i, j) = <<1, 1>>
            /\ ~RLess(LdPair(i, j), <<0, 1>>) /\ ~RLess(<<1, 1>>, LdPair(i, j))
            /\ LabelsAt(ld_in[1].coords1[i]) \cap LabelsAt(ld_in[1].coords2[j]) = {}
               => LdPair(i, j) = <<0, 1>>

C9_Witness ==
    /\ ld_out # << >>
    /\ \E i, j \in 1 .. feature_samples :
          /\ ld_in[1].coords1[i] % Scale # 0
          /\ ld_in[1].coords1[i] # ld_in[1].coords2[j]
          /\ Cardinality(LabelsAt(ld_in[1].coords1[i])) = 1
          /\ LabelsAt(ld_in[1].coords1[i]) = LabelsAt(ld_in[1].coords2[j])
          /\ LdPair(i, j) = <<1, 1>>

(***************************************************************************)
(* Claims about create-dataset.py (under SpecSplit)                        *)
(***************************************************************************)
\* the files hard-linked into a directory
Linked(dir) == {l.file : l \in links[dir]}

\* C10: no file is linked into two of the three directories; the directories
\* hold at most 50%, 25% and 25% of dataset_size files; and when the script
\* ends they hold three consecutive slices of the shuffled list, from its start
C10_DisjointSlices ==
    /\ split_pc # "raised"
    /\ Linked("train") \cap Linked("val") = {}
    /\ Linked("train") \cap Linked("test") = {}
    /\ Linked("val") \cap Linked("test") = {}
    /\ Cardinality(links["train"]) * 100 <= train_percent * dataset_size
    /\ Cardinality(links["val"]) * 100 <= val_percent * dataset_size
    /\ Cardinality(links["test"]) * 100 <= test_percent * dataset_size
    /\ split_pc = "end" =>
          \E a, b, c \in 0 .. Len(dataset_files) :
              /\ a <= b /\ b <= c
              /\ Linked("train") = {dataset_files[i] : i \in 1 .. a}
              /\ Linked("val") = {dataset_files[i] : i \in (a + 1) .. b}
              /\ Linked("test") = {dataset_files[i] : i \in (b + 1) .. c}
              /\ Cardinality(links["train"]) = a
              /\ Cardinality(links["val"]) = b - a
              /\ Cardinality(links["test"]) = c - b

C10_Witness ==
    /\ split_pc = "end"
    /\ Len(dataset_files) > dataset_size
    /\ Linked("train") # {} /\ Linked("val") # {} /\ Linked("test") # {}
    /\ dataset_files[1] # 1

=============================================================================
